---- MODULE Spec2Model ----
(***************************************************************************)
(* Fleet telemetry scripts: the synthetic-data generator                   *)
(* (scripts/generate_data.py) and the Python benchmark parser              *)
(* (scripts/benchmark_parser.py).                                          *)
(*                                                                         *)
(* Text is a sequence of tokens.  A token is a single character wherever   *)
(* the code inspects characters (digits, sign, decimal point, the CSV      *)
(* delimiter and quote) and an opaque literal chunk otherwise ("VEH-",     *)
(* a column name, a diagnostic code).                                      *)
(*                                                                         *)
(* Floating-point fields are fixed-point integers: latitude and longitude  *)
(* in 10^-6 degrees, every other float in 10^-3 of its unit.  A draw of    *)
(* random.random() is p/1000 with p in 0..999.                             *)
(***************************************************************************)
EXTENDS Integers, Sequences, FiniteSets, TLC

----------------------------------------------------------------------------
(* Bounds of the exploration *)

\* largest --records value of a run that writes one format
MaxRecords == 2
\* largest --records value of a run with --format all
MaxAllRecords == 1
\* largest --vehicles value
MaxVehicles == 2
\* largest measured elapsed time, in clock ticks
MaxElapsed == 1
\* most data rows of a hand-written CSV file given to the parsers
MaxRows == 2

\* The random draws of one loop iteration, in the order the code makes
\* them: inc is the random.random() of the odometer increment, the others
\* are the draws of generate_telemetry_record (random.random() as p/1000,
\* rpm the random.randint(0, 5200), diag the index random.choice picks in
\* DIAGNOSTIC_CODES).  The exploration tries a mid-range baseline and the
\* extreme outcome of each draw a checked property reads.
BaselineDraws ==
    [inc |-> 0, lat |-> 500, lon |-> 500, speed |-> 500, heading |-> 500,
     rpm |-> 0, fuel |-> 500, odo |-> 0, temp |-> 500, batt |-> 500, diag |-> 1]

TriedDraws ==
    {BaselineDraws,
     [BaselineDraws EXCEPT !.inc = 999],
     [BaselineDraws EXCEPT !.odo = 999],
     [BaselineDraws EXCEPT !.rpm = 5200],
     [BaselineDraws EXCEPT !.diag = 9]}

\* outcomes of random.randint(0, 100000) tried (initial odometer)
OdoStartDraws == {100000}
\* seconds-of-day of datetime.now() - 1 day tried for base_time
BaseTimes == {86399}

----------------------------------------------------------------------------
(* Text: decimal formatting and parsing *)

Digit == <<"0", "1", "2", "3", "4", "5", "6", "7", "8", "9">>

IsDigit(c) == \E k \in 1..10 : Digit[k] = c

DigitValue(c) == (CHOOSE k \in 1..10 : Digit[k] = c) - 1

RECURSIVE Pow10(_)
Pow10(k) == IF k = 0 THEN 1 ELSE 10 * Pow10(k - 1)

\* decimal digits of a natural number
RECURSIVE Dec(_)
Dec(n) == IF n < 10 THEN <<Digit[n + 1]>>
          ELSE Dec(n \div 10) \o <<Digit[(n % 10) + 1]>>

RECURSIVE ZeroPad(_, _)
ZeroPad(s, w) == IF Len(s) >= w THEN s ELSE ZeroPad(<<"0">> \o s, w)

\* str(n) of a Python int
StrInt(n) == IF n < 0 THEN <<"-">> \o Dec(-n) ELSE Dec(n)

RoundHalfEven(n, d) ==
    LET q == n \div d
        r == n % d
    IN  IF 2 * r > d \/ (2 * r = d /\ q % 2 = 1) THEN q + 1 ELSE q

\* f"{x:.<digits>f}" of the fixed-point value n * 10^-scale
FormatFixed(n, scale, digits) ==
    LET a == IF n < 0 THEN -n ELSE n
        q == RoundHalfEven(a, Pow10(scale - digits))
    IN  (IF n < 0 THEN <<"-">> ELSE <<>>)
        \o Dec(q \div Pow10(digits)) \o <<".">>
        \o ZeroPad(Dec(q % Pow10(digits)), digits)

RECURSIVE DigitsValue(_)
DigitsValue(s) == IF s = <<>> THEN 0
                  ELSE 10 * DigitsValue(SubSeq(s, 1, Len(s) - 1))
                       + DigitValue(s[Len(s)])

AllDigits(s) == \A k \in 1..Len(s) : IsDigit(s[k])

Unsigned(s) == IF s # <<>> /\ s[1] \in {"-", "+"} THEN Tail(s) ELSE s

\* the text int() accepts: an optional sign and one or more digits
IntText(s) == Unsigned(s) # <<>> /\ AllDigits(Unsigned(s))

IntValue(s) == IF s[1] = "-" THEN -DigitsValue(Unsigned(s))
               ELSE DigitsValue(Unsigned(s))

PointAt(s) == IF \E k \in 1..Len(s) : s[k] = "."
              THEN CHOOSE k \in 1..Len(s) : s[k] = "." /\ \A j \in 1..(k - 1) : s[j] # "."
              ELSE Len(s) + 1

\* the text float() accepts: an optional sign, digits, at most one point,
\* at least one digit
FloatText(s) ==
    LET u == Unsigned(s)
        p == PointAt(u)
        whole == SubSeq(u, 1, p - 1)
        frac == SubSeq(u, p + 1, Len(u))
    IN  /\ AllDigits(whole) /\ AllDigits(frac)
        /\ Len(whole) + Len(frac) > 0

\* float(s): sign, whole part and the first six decimals
FloatValue(s) ==
    LET u == Unsigned(s)
        p == PointAt(u)
        whole == SubSeq(u, 1, p - 1)
        frac == SubSeq(u, p + 1, Len(u))
        six == SubSeq(frac \o <<"0", "0", "0", "0", "0", "0">>, 1, 6)
    IN  [neg |-> s[1] = "-", whole |-> DigitsValue(whole), micro |-> DigitsValue(six)]

----------------------------------------------------------------------------
(* Text: csv.writer and csv.DictReader (default dialect) *)

RECURSIVE Join(_, _)
Join(cells, sep) == IF cells = <<>> THEN <<>>
                    ELSE IF Len(cells) = 1 THEN cells[1]
                    ELSE cells[1] \o <<sep>> \o Join(Tail(cells), sep)

\* QUOTE_MINIMAL: a field is quoted when it holds the delimiter, the quote
\* character or a line break; a quote inside it is doubled
NeedsQuote(cell) == \E k \in 1..Len(cell) : cell[k] \in {",", "\"", "\n", "\r"}

RECURSIVE DoubleQuotes(_)
DoubleQuotes(cell) ==
    IF cell = <<>> THEN <<>>
    ELSE (IF cell[1] = "\"" THEN <<"\"", "\"">> ELSE <<cell[1]>>)
         \o DoubleQuotes(Tail(cell))

CsvField(cell) == IF NeedsQuote(cell)
                  THEN <<"\"">> \o DoubleQuotes(cell) \o <<"\"">>
                  ELSE cell

\* writer.writerow(cells): one line of the file
writerow(cells) == Join([k \in 1..Len(cells) |-> CsvField(cells[k])], ",")

\* csv.reader on one line.  A delimiter separates fields when it is outside
\* quotes, that is when an even number of quote characters precede it (a
\* doubled quote inside a quoted field counts twice).
Positions(line) == [k \in 1..Len(line) |-> k]

QuotePositions(line) == SelectSeq(Positions(line), LAMBDA k : line[k] = "\"")

QuotesBefore(quotes, k) == Cardinality({j \in 1..Len(quotes) : quotes[j] < k})

\* the positions of the separating delimiters, ascending
Delimiters(line) ==
    LET quotes == QuotePositions(line)
    IN  SelectSeq(Positions(line),
                  LAMBDA k : line[k] = "," /\ QuotesBefore(quotes, k) % 2 = 0)

\* where field n starts and ends: after delimiter n - 1, before delimiter n
FieldStart(seps, n) == IF n = 1 THEN 1 ELSE seps[n - 1] + 1

FieldEnd(line, seps, n) == IF n > Len(seps) THEN Len(line) ELSE seps[n] - 1

\* the text of a quoted field after its opening quote: a doubled quote is
\* one quote, the closing quote is dropped
RECURSIVE Unquoted(_)
Unquoted(s) ==
    IF s = <<>> THEN <<>>
    ELSE IF s[1] = "\""
         THEN IF Len(s) > 1 /\ s[2] = "\""
              THEN <<"\"">> \o Unquoted(SubSeq(s, 3, Len(s)))
              ELSE Unquoted(Tail(s))
         ELSE <<s[1]>> \o Unquoted(Tail(s))

ReadField(s) == IF s # <<>> /\ s[1] = "\"" THEN Unquoted(Tail(s)) ELSE s

\* an empty line reads as the empty row []
ReadRow(line) ==
    IF line = <<>> THEN <<>>
    ELSE LET seps == Delimiters(line)
         IN  <<>> \o [n \in 1..(Len(seps) + 1) |->
                         ReadField(SubSeq(line, FieldStart(seps, n),
                                          FieldEnd(line, seps, n)))]

\* DictReader's restval for a field the row is too short to hold
None == <<"None">>

\* the dict DictReader yields for a row: dict(zip(fieldnames, row)), with
\* None for the fields a short row lacks (cells beyond the header go to
\* the restkey, which no reader here looks up)
RECURSIVE ZipFrom(_, _, _)
ZipFrom(fieldnames, row, k) ==
    IF k > Len(fieldnames) THEN [name \in {} |-> None]
    ELSE ZipFrom(fieldnames, row, k + 1)
         @@ (fieldnames[k] :> (IF k <= Len(row) THEN row[k] ELSE None))

RowDict(fieldnames, row) == ZipFrom(fieldnames, row, 1)

----------------------------------------------------------------------------
(* scripts/generate_data.py: records *)

DIAGNOSTIC_CODES ==
    << <<>>, <<>>, <<>>, <<>>, <<>>, <<>>, <<>>, <<>>,
       <<"P0420">>, <<"P0171">>, <<"P0300">>, <<"P0442">>, <<"P0128">>, <<"P0455">> >>

\* the column names, in the order generate_csv writes them
FieldNames ==
    << <<"vehicle_id">>, <<"timestamp">>, <<"latitude">>, <<"longitude">>,
       <<"speed">>, <<"heading">>, <<"engine_rpm">>, <<"fuel_level">>,
       <<"odometer_km">>, <<"engine_temp">>, <<"battery_volt">>,
       <<"diagnostic_code">> >>

\* f"VEH-{i:03d}"
VehicleId(k) == <<"VEH-">> \o ZeroPad(StrInt(k), 3)

\* [f"VEH-{i:03d}" for i in range(1, num_vehicles + 1)]
VehiclePool(num_vehicles) ==
    [k \in 1..(IF num_vehicles > 0 THEN num_vehicles ELSE 0) |-> VehicleId(k)]

SecondsPerDay == 86400

\* datetime.isoformat() of the instant t (seconds; the date is rendered by
\* its day number, the fractional second is left out)
isoformat(t) ==
    LET s == t % SecondsPerDay
    IN  ZeroPad(Dec(t \div SecondsPerDay), 4) \o <<"T">>
        \o ZeroPad(Dec(s \div 3600), 2) \o <<":">>
        \o ZeroPad(Dec((s % 3600) \div 60), 2) \o <<":">>
        \o ZeroPad(Dec(s % 60), 2)

\* the instant an isoformat() text denotes
IsoInstant(text) ==
    DigitsValue(SubSeq(text, 1, 4)) * SecondsPerDay
    + DigitsValue(SubSeq(text, 6, 7)) * 3600
    + DigitsValue(SubSeq(text, 9, 10)) * 60
    + DigitsValue(SubSeq(text, 12, 13))

\* the engine_rpm of generate_test_data.py, 1000 + random.randint(...), put
\* in the place of EngineRpm
EngineRpm_From1000(k) == 1000 + k

\* 800 + random.randint(0, 5200)
EngineRpm(k) == 800 + k

\* odometer + random.random() * 0.5
OdometerKm(odometer, p) == odometer + p \div 2

generate_telemetry_record(vehicle_id, timestamp, base_lat, base_lon, odometer, d) ==
    [vehicle_id |-> vehicle_id,
     timestamp |-> isoformat(timestamp),
     latitude |-> base_lat + (d.lat - 500) * 10,
     longitude |-> base_lon + (d.lon - 500) * 10,
     speed |-> d.speed * 120,
     heading |-> d.heading * 360,
     engine_rpm |-> EngineRpm(d.rpm),
     fuel_level |-> 15000 + d.fuel * 85,
     odometer_km |-> OdometerKm(odometer, d.odo),
     engine_temp |-> 75000 + d.temp * 35,
     battery_volt |-> 11500 + (d.batt * 5) \div 2,
     diagnostic_code |-> DIAGNOSTIC_CODES[d.diag]]

\* Orlando, FL
BaseLat == 28538300
BaseLon == -81379200

\* CsvCells with vehicle_id and diagnostic_code written in each other's
\* column
CsvCells_Swapped(r) ==
    << r.diagnostic_code, r.timestamp,
       FormatFixed(r.latitude, 6, 6), FormatFixed(r.longitude, 6, 6),
       FormatFixed(r.speed, 3, 2), FormatFixed(r.heading, 3, 2),
       StrInt(r.engine_rpm), FormatFixed(r.fuel_level, 3, 2),
       FormatFixed(r.odometer_km, 3, 2), FormatFixed(r.engine_temp, 3, 2),
       FormatFixed(r.battery_volt, 3, 2), r.vehicle_id >>

\* the cells generate_csv writes for a record
CsvCells(r) ==
    << r.vehicle_id, r.timestamp,
       FormatFixed(r.latitude, 6, 6), FormatFixed(r.longitude, 6, 6),
       FormatFixed(r.speed, 3, 2), FormatFixed(r.heading, 3, 2),
       StrInt(r.engine_rpm), FormatFixed(r.fuel_level, 3, 2),
       FormatFixed(r.odometer_km, 3, 2), FormatFixed(r.engine_temp, 3, 2),
       FormatFixed(r.battery_volt, 3, 2), r.diagnostic_code >>

\* the line generate_log writes for a record
LogLine(r) ==
    r.timestamp \o <<"|">> \o r.vehicle_id \o <<"|">>
    \o FormatFixed(r.latitude, 6, 6) \o <<",">> \o FormatFixed(r.longitude, 6, 6)
    \o <<"|">> \o FormatFixed(r.speed, 3, 2) \o <<"|">> \o StrInt(r.engine_rpm)
    \o <<"|">> \o FormatFixed(r.fuel_level, 3, 2)
    \o <<"|">> \o FormatFixed(r.odometer_km, 3, 2)
    \o <<"|">> \o FormatFixed(r.engine_temp, 3, 2)
    \o <<"|">> \o FormatFixed(r.battery_volt, 3, 2)
    \o <<"|">> \o r.diagnostic_code

LogHeader ==
    << <<"# Fleet Telemetry Log">>,
       <<"# Format: timestamp|vehicle_id|lat,lon|speed|rpm|fuel|odo|temp|batt|diag">> >>

----------------------------------------------------------------------------
(* scripts/benchmark_parser.py and benchmark_python_parser: reading rows *)

\* the fields parse_telemetry converts, in the order of its dict literal
ParseTelemetryFields ==
    << <<"vehicle_id", "str">>, <<"latitude", "float">>, <<"longitude", "float">>,
       <<"speed", "float">>, <<"engine_rpm", "int">>, <<"fuel_level", "float">> >>

\* the fields benchmark_python_parser converts, in the order of its dict literal
BenchmarkFields ==
    << <<"vehicle_id", "str">>, <<"timestamp", "str">>, <<"latitude", "float">>,
       <<"longitude", "float">>, <<"speed", "float">>, <<"heading", "float">>,
       <<"engine_rpm", "int">>, <<"fuel_level", "float">>,
       <<"odometer_km", "float">>, <<"engine_temp", "float">>,
       <<"battery_volt", "float">>, <<"diagnostic_code", "str">> >>

\* the exception converting one field of a row dict raises, or "none":
\* row[name] raises KeyError when the header has no such column, float()
\* and int() raise TypeError on None and ValueError on text they reject
FieldError(row, name, type) ==
    IF <<name>> \notin DOMAIN row THEN "KeyError"
    ELSE IF type = "str" THEN "none"
    ELSE IF row[<<name>>] = None THEN "TypeError"
    ELSE IF type = "float" /\ ~FloatText(row[<<name>>]) THEN "ValueError"
    ELSE IF type = "int" /\ ~IntText(row[<<name>>]) THEN "ValueError"
    ELSE "none"

FieldValue(row, name, type) ==
    IF type = "float" THEN FloatValue(row[<<name>>])
    ELSE IF type = "int" THEN IntValue(row[<<name>>])
    ELSE row[<<name>>]

\* the first exception the dict literal raises for a row, or "none"
RowError(row, fields) ==
    LET errors == <<>> \o [k \in 1..Len(fields) |->
                              FieldError(row, fields[k][1], fields[k][2])]
    IN  IF \E k \in 1..Len(errors) : errors[k] # "none"
        THEN errors[CHOOSE k \in 1..Len(errors) :
                        /\ errors[k] # "none"
                        /\ \A h \in 1..(k - 1) : errors[h] = "none"]
        ELSE "none"

\* the record the dict literal builds from a row
RowRecord(row, fields) ==
    [name \in {fields[k][1] : k \in 1..Len(fields)} |->
        LET k == CHOOSE j \in 1..Len(fields) : fields[j][1] = name
        IN  FieldValue(row, name, fields[k][2])]

\* ReadRecords with the dict literal in a try block that drops the row on
\* an exception and goes on with the next one
RECURSIVE ReadRecords_SkipBad(_, _, _, _, _)
ReadRecords_SkipBad(fieldnames, lines, k, fields, acc) ==
    IF k > Len(lines) THEN [error |-> "none", records |-> acc, lines_read |-> k - 2]
    ELSE IF ReadRow(lines[k]) = <<>>
         THEN ReadRecords_SkipBad(fieldnames, lines, k + 1, fields, acc)
         ELSE LET row == RowDict(fieldnames, ReadRow(lines[k]))
              IN  IF RowError(row, fields) # "none"
                  THEN ReadRecords_SkipBad(fieldnames, lines, k + 1, fields, acc)
                  ELSE ReadRecords_SkipBad(fieldnames, lines, k + 1, fields,
                                           Append(acc, RowRecord(row, fields)))

\* for row in reader: ...; records.append(record), from line k of the file
\* on.  DictReader skips the rows that read as [].  The loop ends at the
\* end of the file or at the first exception; lines_read counts the data
\* lines the reader consumed.
RECURSIVE ReadRecords(_, _, _, _, _)
ReadRecords(fieldnames, lines, k, fields, acc) ==
    IF k > Len(lines) THEN [error |-> "none", records |-> acc, lines_read |-> k - 2]
    ELSE IF ReadRow(lines[k]) = <<>>
         THEN ReadRecords(fieldnames, lines, k + 1, fields, acc)
         ELSE LET row == RowDict(fieldnames, ReadRow(lines[k]))
              IN  IF RowError(row, fields) # "none"
                  THEN [error |-> RowError(row, fields), records |-> acc,
                        lines_read |-> k - 1]
                  ELSE ReadRecords(fieldnames, lines, k + 1, fields,
                                   Append(acc, RowRecord(row, fields)))

\* with open(filename, 'r') as f: reader = csv.DictReader(f); the loop.
\* The first line of the file is the header.
ReadCsv(file, fields) ==
    IF ~file.exists
    THEN [error |-> "FileNotFoundError", records |-> <<>>, lines_read |-> 0]
    ELSE IF file.body = <<>>
         THEN [error |-> "none", records |-> <<>>, lines_read |-> 0]
         ELSE ReadRecords(ReadRow(file.body[1]), file.body, 2, fields, <<>>)

----------------------------------------------------------------------------
(* State *)

VARIABLES
    pc,            \* where control is: a statement of main, the loop of a
                   \* generator, the loop of benchmark_python_parser, or
                   \* "shell" when no function of generate_data.py runs
    args,          \* main: the parsed command line
    files,         \* main: the list `files`
    disk,          \* the output files <output>.csv, .json and .log
    fmt,           \* the generator that is running, or "none"
    i,             \* generator: the loop index
    base_time,     \* generator: base_time
    vehicles,      \* generator: the list `vehicles`
    odometers,     \* generator: the dict `odometers`
    records,       \* generate_json: the list `records`
    emitted,       \* per generator, the records generate_telemetry_record
                   \* returned in its last run, in order
    error,         \* the exception that ended generate_data.py, or "none"
    bench,         \* benchmark_python_parser: caller, i, total_time, record_count
    report,        \* benchmark_python_parser: the results it printed
    parsed,        \* per reader, the list `records` and the data lines its
                   \* last reading loop consumed
    script_error,  \* benchmark_parser.py: "notrun", "none" or its exception
    result         \* benchmark_parser.py: the dict parse_telemetry returned

vars == <<pc, args, files, disk, fmt, i, base_time, vehicles, odometers, records,
          emitted, error, bench, report, parsed, script_error, result>>

generator_locals == <<fmt, i, base_time, vehicles, odometers, records>>
reader_state == <<bench, report, parsed, script_error, result>>

Range(seq) == {seq[k] : k \in 1..Len(seq)}

Exts == {"csv", "json", "log"}
Formats == {"csv", "json", "log", "all"}
Readers == {"parse_telemetry", "benchmark_python_parser"}

NoFile == [exists |-> FALSE, closed |-> TRUE, body |-> <<>>]
NoResult == [kind |-> "none"]
NoBench == [caller |-> "none", iteration |-> 0, total_time |-> 0, record_count |-> 0]
NotParsed == [records |-> <<>>, lines_read |-> 0]
NoOdometers == [v \in {} |-> 0]

\* iterations = 3
Iterations == 3

----------------------------------------------------------------------------
(* scripts/generate_data.py: the generators *)

\* RecordTime with timedelta(seconds=1) in the place of timedelta(seconds=i)
RecordTime_OneSecond(base, k) == base + 1

\* timestamp = base_time + timedelta(seconds=i)
RecordTime(base, k) == base + k

\* OdometerStep advancing the odometer of every vehicle of the pool
OdometerStep_AllVehicles(odo, vehicle, p) ==
    [v \in DOMAIN odo |-> odo[v] + p \div 50]

\* odometers[vehicle] += random.random() * 0.02
OdometerStep(odo, vehicle, p) == [odo EXCEPT ![vehicle] = @ + p \div 50]

\* {v: 50000 + random.randint(0, 100000) for v in vehicles}
InitialOdometers(pool) ==
    [Range(pool) -> {(50000 + d) * 1000 : d \in OdoStartDraws}]

\* the statement of main that follows the call of a generator
AfterGenerator(f) == CASE f = "csv" -> "main_json"
                       [] f = "json" -> "main_log"
                       [] f = "log" -> "main_bench"

\* an exception leaves generate_data.py: the with block closes the open
\* file, the locals are gone
Raise(e) ==
    /\ error' = e
    /\ pc' = "shell"
    /\ fmt' = "none" /\ i' = 0 /\ base_time' = 0 /\ vehicles' = <<>>
    /\ odometers' = NoOdometers /\ records' = <<>>

\* generate_csv, generate_json, generate_log up to the loop: base_time,
\* vehicles, odometers, and the lines written before the first record
generate_start(f) ==
    /\ fmt' = f
    /\ i' = 0
    /\ base_time' \in BaseTimes
    /\ vehicles' = VehiclePool(args.vehicles)
    /\ odometers' \in InitialOdometers(VehiclePool(args.vehicles))
    /\ records' = <<>>
    /\ emitted' = [emitted EXCEPT ![f] = <<>>]
    /\ disk' = CASE f = "csv" ->
                      [disk EXCEPT !["csv"] = [exists |-> TRUE, closed |-> FALSE,
                                                body |-> <<writerow(FieldNames)>>]]
                 [] f = "log" ->
                      [disk EXCEPT !["log"] = [exists |-> TRUE, closed |-> FALSE,
                                                body |-> LogHeader]]
                 [] f = "json" -> disk
    /\ pc' = "generate"

\* one iteration of for i in range(num_records)
GenerateRecord ==
    /\ pc = "generate"
    /\ i < args.records
    /\ IF vehicles = <<>>
       THEN \* random.choice(vehicles) raises IndexError
            /\ Raise("IndexError")
            /\ disk' = IF fmt = "json" THEN disk
                       ELSE [disk EXCEPT ![fmt].closed = TRUE]
            /\ UNCHANGED <<args, files, emitted, reader_state>>
       ELSE \E v \in 1..Len(vehicles), d \in TriedDraws :
                LET vehicle == vehicles[v]
                    stepped == OdometerStep(odometers, vehicle, d.inc)
                    record == generate_telemetry_record(
                                  vehicle, RecordTime(base_time, i),
                                  BaseLat, BaseLon, stepped[vehicle], d)
                IN  /\ odometers' = stepped
                    /\ emitted' = [emitted EXCEPT ![fmt] = Append(@, record)]
                    /\ i' = i + 1
                    /\ records' = IF fmt = "json" THEN Append(records, record)
                                  ELSE records
                    /\ disk' = CASE fmt = "csv" ->
                                      [disk EXCEPT !["csv"].body =
                                           Append(@, writerow(CsvCells(record)))]
                                 [] fmt = "log" ->
                                      [disk EXCEPT !["log"].body =
                                           Append(@, LogLine(record))]
                                 [] fmt = "json" -> disk
                    /\ UNCHANGED <<pc, args, files, fmt, base_time, vehicles,
                                   error, reader_state>>

\* the loop is over: the file is closed (generate_json writes it now), then
\* elapsed = time.time() - start_time and the records/sec line, and the
\* return to main, which appends the filename to files
GenerateFinish ==
    /\ pc = "generate"
    /\ i >= args.records
    /\ disk' = IF fmt = "json"
               THEN [disk EXCEPT !["json"] = [exists |-> TRUE, closed |-> TRUE,
                                               body |-> records]]
               ELSE [disk EXCEPT ![fmt].closed = TRUE]
    /\ \E elapsed \in 0..MaxElapsed :
           IF elapsed = 0
           THEN \* num_records / elapsed
                /\ Raise("ZeroDivisionError")
                /\ UNCHANGED files
           ELSE /\ files' = Append(files, fmt)
                /\ pc' = AfterGenerator(fmt)
                /\ fmt' = "none" /\ i' = 0 /\ base_time' = 0 /\ vehicles' = <<>>
                /\ odometers' = NoOdometers /\ records' = <<>>
                /\ UNCHANGED error
    /\ UNCHANGED <<args, emitted, reader_state>>

----------------------------------------------------------------------------
(* scripts/generate_data.py: main *)

\* if args.format in ["csv", "all"]: files.append(generate_csv(...))
MainCsv ==
    /\ pc = "main_csv"
    /\ IF args.format \in {"csv", "all"}
       THEN generate_start("csv")
       ELSE pc' = "main_json" /\ UNCHANGED <<generator_locals, emitted, disk>>
    /\ UNCHANGED <<args, files, error, reader_state>>

\* if args.format in ["json", "all"]: files.append(generate_json(...))
MainJson ==
    /\ pc = "main_json"
    /\ IF args.format \in {"json", "all"}
       THEN generate_start("json")
       ELSE pc' = "main_log" /\ UNCHANGED <<generator_locals, emitted, disk>>
    /\ UNCHANGED <<args, files, error, reader_state>>

\* if args.format in ["log", "all"]: files.append(generate_log(...))
MainLog ==
    /\ pc = "main_log"
    /\ IF args.format \in {"log", "all"}
       THEN generate_start("log")
       ELSE pc' = "main_bench" /\ UNCHANGED <<generator_locals, emitted, disk>>
    /\ UNCHANGED <<args, files, error, reader_state>>

\* if args.benchmark and f"{args.output}.csv" in files
BenchmarkRequested == args.benchmark /\ "csv" \in Range(files)

MainBenchmark ==
    /\ pc = "main_bench"
    /\ IF BenchmarkRequested
       THEN /\ pc' = "benchmark"
            /\ bench' = [NoBench EXCEPT !.caller = "main"]
       ELSE /\ pc' = "main_done"
            /\ UNCHANGED bench
    /\ UNCHANGED <<args, files, disk, generator_locals, emitted, error, report,
                   parsed, script_error, result>>

\* the closing print of main, and main returns
MainDone ==
    /\ pc = "main_done"
    /\ pc' = "shell"
    /\ UNCHANGED <<args, files, disk, generator_locals, emitted, error,
                   reader_state>>

----------------------------------------------------------------------------
(* benchmark_python_parser (generate_data.py) and parse_telemetry
   (benchmark_parser.py) *)

\* one iteration of for i in range(iterations): read the file into
\* records, then elapsed, total_time and record_count
BenchmarkIteration ==
    /\ pc = "benchmark"
    /\ bench.iteration < Iterations
    /\ \E r \in {ReadCsv(disk["csv"], BenchmarkFields)} :
           /\ parsed' = [parsed EXCEPT !["benchmark_python_parser"] =
                            [records |-> r.records, lines_read |-> r.lines_read]]
           /\ IF r.error # "none"
              THEN /\ Raise(r.error)
                   /\ UNCHANGED bench
              ELSE /\ \E elapsed \in 0..MaxElapsed :
                          bench' = [bench EXCEPT
                                       !.iteration = @ + 1,
                                       !.total_time = @ + elapsed,
                                       !.record_count = Len(r.records)]
                   /\ UNCHANGED <<pc, error, generator_locals>>
    /\ UNCHANGED <<args, files, disk, emitted, report, script_error, result>>

\* avg_time = total_time / iterations; records_per_sec = record_count /
\* avg_time; the printed results; return
BenchmarkReport ==
    /\ pc = "benchmark"
    /\ bench.iteration = Iterations
    /\ IF bench.total_time = 0
       THEN /\ Raise("ZeroDivisionError")
            /\ UNCHANGED report
       ELSE /\ report' = [kind |-> "benchmark",
                          records |-> bench.record_count,
                          total_time |-> bench.total_time,
                          records_per_sec |->
                              (bench.record_count * Iterations * 1000)
                                  \div bench.total_time]
            /\ pc' = IF bench.caller = "main" THEN "main_done" ELSE "shell"
            /\ UNCHANGED <<error, generator_locals>>
    /\ UNCHANGED <<args, files, disk, emitted, bench, parsed, script_error, result>>

\* a direct call benchmark_python_parser(filename)
CallBenchmark ==
    /\ pc = "shell"
    /\ bench.caller = "none"
    /\ error = "none"
    /\ pc' = "benchmark"
    /\ bench' = [NoBench EXCEPT !.caller = "shell"]
    /\ UNCHANGED <<args, files, disk, generator_locals, emitted, error, report,
                   parsed, script_error, result>>

\* benchmark_parser.py <output>.csv: parse_telemetry(filename) and the
\* print of its result; elapsed_ms in clock ticks of one millisecond
RunParseTelemetry ==
    /\ pc = "shell"
    /\ script_error = "notrun"
    /\ \E r \in {ReadCsv(disk["csv"], ParseTelemetryFields)} :
           /\ parsed' = [parsed EXCEPT !["parse_telemetry"] =
                            [records |-> r.records, lines_read |-> r.lines_read]]
           /\ script_error' = r.error
           /\ IF r.error # "none"
              THEN UNCHANGED result
              ELSE \E elapsed_ms \in 0..MaxElapsed :
                       result' = [kind |-> "parse_telemetry",
                                  parser |-> "Python",
                                  records_parsed |-> Len(r.records),
                                  time_ms |-> elapsed_ms,
                                  records_per_sec |->
                                      IF elapsed_ms > 0
                                      THEN (Len(r.records) * 1000) \div elapsed_ms
                                      ELSE 0]
    /\ UNCHANGED <<pc, args, files, disk, generator_locals, emitted, error,
                   bench, report>>

----------------------------------------------------------------------------
(* Specifications *)

NoArgs == [records |-> 0, vehicles |-> 0, format |-> "csv", benchmark |-> FALSE]

\* everything but the command line and the disk, before anything has run
Fresh ==
    /\ files = <<>>
    /\ fmt = "none" /\ i = 0 /\ base_time = 0 /\ vehicles = <<>>
    /\ odometers = NoOdometers /\ records = <<>>
    /\ emitted = [f \in Exts |-> <<>>]
    /\ error = "none"
    /\ bench = NoBench
    /\ report = NoResult
    /\ parsed = [r \in Readers |-> NotParsed]
    /\ script_error = "notrun"
    /\ result = NoResult

\* generate_data.py -n records -v vehicles -f format [-b], one format
Init ==
    /\ pc = "main_csv"
    /\ args \in [records : -1..MaxRecords, vehicles : -1..MaxVehicles,
                 format : Exts, benchmark : BOOLEAN]
    /\ disk = [f \in Exts |-> NoFile]
    /\ Fresh

\* generate_data.py with any --format, "all" included
InitMain ==
    /\ pc = "main_csv"
    /\ args \in [records : -1..MaxAllRecords, vehicles : -1..MaxVehicles,
                 format : Formats, benchmark : BOOLEAN]
    /\ disk = [f \in Exts |-> NoFile]
    /\ Fresh

\* a data line of a hand-written CSV file: a well-formed row, an empty
\* line, rows cut short after 1, 7, 8 and 11 cells, and rows with text
\* that is no number in latitude, heading and engine_rpm
GoodCells ==
    CsvCells(generate_telemetry_record(
                 VehicleId(1), 0, BaseLat, BaseLon, 50000000,
                 [BaselineDraws EXCEPT !.diag = 9]))

RowPool ==
    {writerow(GoodCells), <<>>}
    \cup {writerow(SubSeq(GoodCells, 1, n)) : n \in {1, 7, 8, 11}}
    \cup {writerow([GoodCells EXCEPT ![k] = <<"x">>]) : k \in {3, 6}}
    \cup {writerow([GoodCells EXCEPT ![7] = <<"1", "2", ".", "5">>])}

HandWrittenFiles ==
    {[exists |-> TRUE, closed |-> TRUE, body |-> <<writerow(FieldNames)>> \o rows] :
        rows \in UNION {[1..n -> RowPool] : n \in 0..MaxRows}}

\* the readers on a CSV file that no generator of this run wrote
InitParse ==
    /\ pc = "shell"
    /\ args = NoArgs
    /\ disk \in {[f \in Exts |-> IF f = "csv" THEN file ELSE NoFile] :
                    file \in HandWrittenFiles \cup {NoFile}}
    /\ Fresh

Next ==
    \/ MainCsv
    \/ MainJson
    \/ MainLog
    \/ GenerateRecord
    \/ GenerateFinish
    \/ MainBenchmark
    \/ BenchmarkIteration
    \/ BenchmarkReport
    \/ MainDone
    \/ RunParseTelemetry

NextParse ==
    \/ CallBenchmark
    \/ BenchmarkIteration
    \/ BenchmarkReport
    \/ RunParseTelemetry

Spec == Init /\ [][Next]_vars

SpecMain == InitMain /\ [][Next]_vars

SpecParse == InitParse /\ [][NextParse]_vars

----------------------------------------------------------------------------
(* Properties *)

\* the records a written file holds after its framing lines
DataRecords(f) == CASE f = "csv" -> Len(disk[f].body) - 1
                    [] f = "log" -> Len(disk[f].body) - Len(LogHeader)
                    [] f = "json" -> Len(disk[f].body)

ValidArguments == args.records >= 0 /\ args.vehicles >= 1

\* C1: within one run of a generator, the emitted odometer_km of a vehicle
\* never decreases from an earlier record of that vehicle to a later one.
C1_OdometerNonDecreasing ==
    \A f \in Exts :
        \A a \in 1..Len(emitted[f]) : \A b \in (a + 1)..Len(emitted[f]) :
            emitted[f][a].vehicle_id = emitted[f][b].vehicle_id
                => emitted[f][b].odometer_km >= emitted[f][a].odometer_km

\* C2: the record emitted at loop index k carries the timestamp base_time
\* + k seconds, so consecutive records are one second apart and the
\* timestamps increase strictly in emission order, whatever the vehicles.
C2_TimestampIsBasePlusIndex ==
    /\ fmt # "none" =>
           \A k \in 1..Len(emitted[fmt]) :
               IsoInstant(emitted[fmt][k].timestamp) = base_time + (k - 1)
    /\ \A f \in Exts :
           \A a \in 1..Len(emitted[f]) : \A b \in (a + 1)..Len(emitted[f]) :
               /\ IsoInstant(emitted[f][b].timestamp)
                      = IsoInstant(emitted[f][a].timestamp) + (b - a)
               /\ emitted[f][a].timestamp # emitted[f][b].timestamp

\* C2 witness: a running generator has emitted two records of different
\* vehicles, and the seconds have carried into the next day.
C2_Witness ==
    /\ fmt # "none"
    /\ Len(emitted[fmt]) >= 2
    /\ emitted[fmt][1].vehicle_id # emitted[fmt][2].vehicle_id
    /\ IsoInstant(emitted[fmt][2].timestamp) \div SecondsPerDay
           > base_time \div SecondsPerDay

\* C3: with num_records = N >= 0 and num_vehicles >= 1 every generator ends
\* having emitted exactly N records into its file, and reading the CSV
\* file back reports N records: parse_telemetry returns records_parsed = N
\* and benchmark_python_parser, once it has ended, has printed Records: N.
C3_ExactlyNRecords ==
    ValidArguments =>
        /\ \A f \in Exts :
               disk[f].exists /\ disk[f].closed =>
                   DataRecords(f) = args.records /\ Len(emitted[f]) = args.records
        /\ (script_error # "notrun" /\ disk["csv"].exists) =>
               result # NoResult /\ result.records_parsed = args.records
        /\ (bench.caller # "none" /\ pc # "benchmark") =>
               report # NoResult /\ report.records = args.records

\* C4: with num_records < 0 or num_vehicles <= 0 generation fails with an
\* invalid-argument error and emits no record: no generator returns, and
\* the only exception that ends the run is the invalid-argument one.
C4_InvalidArgumentsRejected ==
    (args.records < 0 \/ args.vehicles <= 0) =>
        /\ files = <<>>
        /\ \A f \in Exts : emitted[f] = <<>>
        /\ error \in {"none", "ValueError"}
        /\ pc = "shell" => error = "ValueError"

\* C5 as stated: every emitted engine_rpm is at least 800 and below 6000.
C5_RpmBelow6000 ==
    \A f \in Exts : \A k \in 1..Len(emitted[f]) :
        800 <= emitted[f][k].engine_rpm /\ emitted[f][k].engine_rpm < 6000

\* C5 as amended: every emitted engine_rpm is an integer from 800 to 6000,
\* both included.
C5_RpmWithin800And6000 ==
    \A f \in Exts : \A k \in 1..Len(emitted[f]) :
        /\ emitted[f][k].engine_rpm \in Int
        /\ 800 <= emitted[f][k].engine_rpm
        /\ emitted[f][k].engine_rpm <= 6000

\* C5 witness: a record with engine_rpm 6000 and one with 800 were emitted.
C5_Witness ==
    \E f \in Exts : \E a, b \in 1..Len(emitted[f]) :
        emitted[f][a].engine_rpm = 6000 /\ emitted[f][b].engine_rpm = 800

\* C6: with num_records = 0 every file written holds its framing lines and
\* no record, reading the CSV back reports 0 records, and nothing divides
\* by zero, whatever the measured elapsed times.
C6_ZeroRecordsNoDivisionByZero ==
    args.records = 0 =>
        /\ \A f \in Exts : disk[f].exists => DataRecords(f) = 0
        /\ result # NoResult => result.records_parsed = 0
        /\ report # NoResult => report.records = 0
        /\ error # "ZeroDivisionError"

\* the data lines of the CSV file, and their cells
DataLines == IF disk["csv"].body = <<>> THEN <<>> ELSE Tail(disk["csv"].body)
Cells(n) == ReadRow(DataLines[n])
BlankLine(n) == Cells(n) = <<>>

\* whether float() or int(), as the readers apply them to column c, takes
\* the text
Accepts(c, text) ==
    IF FieldNames[c] = <<"engine_rpm">> THEN IntText(text) ELSE FloatText(text)

\* the columns of the CSV header a reader reads, and those among them it
\* converts with float() or int()
Fields(R) == IF R = "parse_telemetry" THEN ParseTelemetryFields ELSE BenchmarkFields
ReadColumns(R) ==
    {c \in 1..Len(FieldNames) :
        \E k \in 1..Len(Fields(R)) : <<Fields(R)[k][1]>> = FieldNames[c]}
ConvertedColumns(R) ==
    {c \in 1..Len(FieldNames) :
        \E k \in 1..Len(Fields(R)) :
            <<Fields(R)[k][1]>> = FieldNames[c] /\ Fields(R)[k][2] # "str"}

\* a data row that lacks a field the reader R expects or holds a numeric
\* value that R cannot parse
Malformed(R, n) ==
    /\ ~BlankLine(n)
    /\ \/ \E c \in ReadColumns(R) : c > Len(Cells(n))
       \/ \E c \in ConvertedColumns(R) :
              c <= Len(Cells(n)) /\ ~Accepts(c, Cells(n)[c])

\* a data row in which a field the reader R converts is missing or does
\* not parse
Rejected(R, n) ==
    /\ ~BlankLine(n)
    /\ \E c \in ConvertedColumns(R) :
           c > Len(Cells(n)) \/ ~Accepts(c, Cells(n)[c])

FirstOf(S) == CHOOSE n \in S : \A m \in S : n <= m
RowsBefore(n) == Cardinality({m \in 1..(n - 1) : ~BlankLine(m)})

\* the reader has run on the CSV file; the exception that ended it; whether
\* it handed back a result
HasRun(R) ==
    IF R = "parse_telemetry" THEN script_error # "notrun"
    ELSE bench.caller # "none" /\ (bench.iteration >= 1 \/ pc # "benchmark")
ReaderError(R) == IF R = "parse_telemetry" THEN script_error ELSE error
NoOutcome(R) == IF R = "parse_telemetry" THEN result = NoResult ELSE report = NoResult

\* C7 as stated: when the CSV file holds a data row that lacks a field the
\* reader expects or holds a numeric value it cannot parse, the reader ends
\* with an error at the first such row and returns no result.
C7_MalformedRowAborts ==
    \A R \in Readers :
        (HasRun(R) /\ disk["csv"].exists) =>
            LET bad == {n \in 1..Len(DataLines) : Malformed(R, n)}
            IN  bad # {} =>
                    /\ ReaderError(R) # "none"
                    /\ NoOutcome(R)
                    /\ parsed[R].lines_read = FirstOf(bad)

\* C7 as amended: a reader ends with TypeError or ValueError, and without a
\* result, at the first non-blank data row in which a field that this
\* reader converts with float() or int() is missing or unparsable, having
\* read one record from each non-blank row before it; with no such row
\* (a row that lacks diagnostic_code only is none) the reader reads every
\* non-blank row and raises none of these errors.
C7_RejectedRowAborts ==
    \A R \in Readers :
        (HasRun(R) /\ disk["csv"].exists) =>
            LET bad == {n \in 1..Len(DataLines) : Rejected(R, n)}
            IN  IF bad # {}
                THEN /\ ReaderError(R) \in {"TypeError", "ValueError"}
                     /\ NoOutcome(R)
                     /\ parsed[R].lines_read = FirstOf(bad)
                     /\ Len(parsed[R].records) = RowsBefore(FirstOf(bad))
                ELSE /\ ReaderError(R) \notin {"TypeError", "ValueError", "KeyError"}
                     /\ parsed[R].lines_read = Len(DataLines)
                     /\ Len(parsed[R].records) = RowsBefore(Len(DataLines) + 1)

\* C7 witness: both readers have run on a file whose first data row is
\* well formed and whose second holds an unparsable latitude, and both
\* ended there with one record read.
C7_Witness ==
    /\ Len(DataLines) = 2
    /\ ~BlankLine(1) /\ \A R \in Readers : ~Malformed(R, 1)
    /\ Len(Cells(2)) = Len(FieldNames) /\ Rejected("parse_telemetry", 2)
    /\ \A R \in Readers :
           /\ HasRun(R)
           /\ ReaderError(R) = "ValueError"
           /\ parsed[R].lines_read = 2
           /\ Len(parsed[R].records) = 1

\* the reader has read the CSV file to its end without an exception
HasParsed(R) ==
    IF R = "parse_telemetry" THEN script_error = "none"
    ELSE bench.caller # "none" /\ bench.iteration >= 1

RoundTripFields == {"vehicle_id", "engine_rpm", "diagnostic_code"}

\* C8 as stated: a reader that parses the file generate_csv wrote yields as
\* many records as were written, and its i-th record has the vehicle_id,
\* engine_rpm and diagnostic_code of the i-th record written.
C8_RoundTripAllFields ==
    \A R \in Readers :
        HasParsed(R) =>
            /\ Len(parsed[R].records) = Len(emitted["csv"])
            /\ \A k \in 1..Len(parsed[R].records) : \A name \in RoundTripFields :
                   /\ name \in DOMAIN parsed[R].records[k]
                   /\ parsed[R].records[k][name] = emitted["csv"][k][name]

\* C8 as amended: either reader yields as many records as were written;
\* the i-th record of benchmark_python_parser has the vehicle_id,
\* engine_rpm and diagnostic_code of the i-th record written; the i-th
\* record of parse_telemetry has its vehicle_id and engine_rpm, and has no
\* diagnostic_code field.
C8_RoundTripPerReader ==
    \A R \in Readers :
        HasParsed(R) =>
            /\ Len(parsed[R].records) = Len(emitted["csv"])
            /\ \A k \in 1..Len(parsed[R].records) :
                   LET fields == IF R = "parse_telemetry"
                                 THEN RoundTripFields \ {"diagnostic_code"}
                                 ELSE RoundTripFields
                   IN  /\ RoundTripFields \cap DOMAIN parsed[R].records[k] = fields
                       /\ \A name \in fields :
                              parsed[R].records[k][name] = emitted["csv"][k][name]

\* C8 witness: both readers have parsed a generated file of two records of
\* different vehicles, one with a diagnostic code and engine_rpm 6000.
C8_Witness ==
    /\ \A R \in Readers : HasParsed(R) /\ Len(parsed[R].records) = 2
    /\ Len(emitted["csv"]) = 2
    /\ emitted["csv"][1].vehicle_id # emitted["csv"][2].vehicle_id
    /\ \E k \in 1..2 : emitted["csv"][k].diagnostic_code # <<>>
    /\ \E k \in 1..2 : emitted["csv"][k].engine_rpm = 6000

\* C9: while a generator runs, the keys of odometers are the ids of the
\* vehicle pool, VEH-001 up to VEH-<num_vehicles>, and every iteration of
\* the record loop leaves the key set as it is, raises the entry of the
\* vehicle of the emitted record by an increment that is not negative, and
\* leaves every other entry as it is.
C9_OdometerMapStep ==
    [][(pc = "generate" /\ i' = i + 1) =>
           /\ DOMAIN odometers = {VehicleId(k) : k \in 1..args.vehicles}
           /\ DOMAIN odometers = Range(vehicles)
           /\ DOMAIN odometers' = DOMAIN odometers
           /\ Len(emitted'[fmt]) = i'
           /\ LET v == emitted'[fmt][i'].vehicle_id
              IN  /\ v \in DOMAIN odometers
                  /\ odometers'[v] >= odometers[v]
                  /\ \A u \in DOMAIN odometers \ {v} : odometers'[u] = odometers[u]
      ]_vars

\* C9 witness: two iterations into a run over two vehicles, the odometer of
\* one vehicle has advanced and the other has not.
C9_Witness ==
    /\ pc = "generate" /\ i = 2
    /\ Len(vehicles) = 2
    /\ odometers[vehicles[1]] > odometers[vehicles[2]]
    /\ odometers[vehicles[2]] \in {(50000 + d) * 1000 : d \in OdoStartDraws}

Requested == IF args.format = "all" THEN Exts ELSE {args.format}

\* C10: main runs the generators of the requested formats in the order
\* csv, json, log; it runs the benchmark when and only when the benchmark
\* flag is set and the format is csv or all, and then only after every
\* requested file is completely written; with the flag set and format json
\* or log no benchmark runs and no error is raised.  Stated for valid
\* arguments.
C10_MainOrderAndBenchmark ==
    ValidArguments =>
        /\ \A a \in 1..Len(files) : \A b \in (a + 1)..Len(files) :
               <<files[a], files[b]>> \in {<<"csv", "json">>, <<"csv", "log">>,
                                           <<"json", "log">>}
        /\ Range(files) \subseteq Requested
        /\ bench.caller # "none" =>
               /\ bench.caller = "main"
               /\ args.benchmark /\ args.format \in {"csv", "all"}
               /\ \A f \in Requested :
                      f \in Range(files) /\ disk[f].exists /\ disk[f].closed
        /\ (pc = "shell" /\ args.benchmark /\ args.format \in {"csv", "all"})
               => bench.caller = "main"
        /\ (args.benchmark /\ args.format \in {"json", "log"})
               => bench.caller = "none" /\ error = "none"

====
